---- MODULE Spec2Model ----
(***************************************************************************)
(* A model of nelhage/go.cli: the completion package (command-line         *)
(* tokenizer, flag-aware completion, completion dispatch) and the config   *)
(* package (key = value loader over a flag.FlagSet).                       *)
(*                                                                         *)
(* Go strings are modelled as sequences of one-character strings, so that  *)
(* indexing, slicing, prefix tests and trimming are computed as the code   *)
(* computes them.  The characters used are all single-byte, so a byte      *)
(* offset and a rune offset coincide.                                      *)
(***************************************************************************)
EXTENDS Integers, Sequences, FiniteSets, TLC

VARIABLES
    pc,          \* position of the modelled call: "call", "scan", "done", ...
    line,        \* parseLineForCompletion: the line argument
    point,       \* parseLineForCompletion: the point argument
    words,       \* parseLineForCompletion: the returned CommandLine
    arg,         \* flagCompleter.Complete: the CommandLine it was called with
    cl,          \* completeFlags: the part of the command line not yet scanned
    clNil,       \* completeFlags: whether cl is the nil slice
    inFlag,      \* completeFlags: the flag whose value the next word is, or ""
    completions, \* completeFlags: the returned completions
    rest,        \* completeFlags: the returned rest
    restNil,     \* completeFlags: whether rest is nil
    innerArgs,   \* the command lines the inner Completer was called with
    result,      \* flagCompleter.Complete: the returned completions
    args,        \* CompleteIfRequested: os.Args
    compLine,    \* CompleteIfRequested: os.Getenv("COMP_LINE")
    compPoint,   \* CompleteIfRequested: os.Getenv("COMP_POINT")
    completer,   \* CompleteIfRequested: the Completer it was given
    completerArgs, \* the command lines that Completer was called with
    exitStatus,  \* the status passed to os.Exit, -1 before any exit
    stdout,      \* the lines written by fmt.Println
    input,       \* ParseConfig: the lines of the reader f
    stream,      \* ParseConfig: the lines the scanner has not yet returned
    flags,       \* ParseConfig: the values of the flags of the flag set
    err,         \* ParseConfig: the returned error
    panicked     \* whether the call ended in a runtime panic

parseVars == <<line, point, words>>
flagVars  == <<arg, cl, clNil, inFlag, completions, rest, restNil, innerArgs, result>>
mainVars  == <<args, compLine, compPoint, completer, completerArgs, exitStatus, stdout>>
configVars == <<input, stream, flags, err>>
vars == <<pc, parseVars, flagVars, mainVars, configVars, panicked>>

(***************************************************************************)
(* Bounds of the model.                                                    *)
(***************************************************************************)
MaxLen == 5      \* longest line handed to the tokenizer
MaxWords == 4    \* longest command line handed to the flag-aware completer
MaxLines == 3    \* longest stream handed to ParseConfig

(***************************************************************************)
(* String helpers.                                                         *)
(***************************************************************************)
\* s[a..b] as Go's s[a-1:b]
Slice(s, a, b) == [k \in 1..(b - a + 1) |-> s[a + k - 1]]

\* all sequences over S of length at most n
SeqsUpTo(S, n) == UNION {[1..k -> S] : k \in 0..n}

(***************************************************************************)
(* completion.go: parseLineForCompletion                                   *)
(***************************************************************************)
NoQuote == "none"      \* var quote rune (zero value: no quote open)

\* the state before the first character is scanned (lines 85-88)
scanInit == [cl |-> <<>>, quote |-> NoQuote, backslash |-> FALSE, word |-> <<>>]

\* A mutation of scanChar: the nil check of line 108 is dropped, so every
\* separator appends the word buffer, empty or not.
scanCharNoNilCheck(s, char) ==
    IF s.backslash
    THEN [s EXCEPT !.word = Append(@, char), !.backslash = FALSE]
    ELSE IF char = "\\"
    THEN [s EXCEPT !.word = Append(@, char), !.backslash = TRUE]
    ELSE CASE s.quote = NoQuote ->
                CASE char \in {"'", "\""} ->
                        [s EXCEPT !.word = Append(@, char), !.quote = char]
                  [] char \in {" ", "\t"} ->
                        [s EXCEPT !.cl = Append(@, s.word), !.word = <<>>]
                  [] OTHER ->
                        [s EXCEPT !.word = Append(@, char)]
           [] s.quote = "'" ->
                [s EXCEPT !.word = Append(@, char),
                          !.quote = IF char = "'" THEN NoQuote ELSE @]
           [] s.quote = "\"" ->
                [s EXCEPT !.word = Append(@, char),
                          !.quote = IF char = "\"" THEN NoQuote ELSE @]

\* A mutation of scanChar: a backslash is an ordinary character inside
\* single quotes (the shell's rule), so it escapes nothing there.
scanCharShellQuotes(s, char) ==
    IF s.backslash
    THEN [s EXCEPT !.word = Append(@, char), !.backslash = FALSE]
    ELSE IF char = "\\" /\ s.quote # "'"
    THEN [s EXCEPT !.word = Append(@, char), !.backslash = TRUE]
    ELSE CASE s.quote = NoQuote ->
                CASE char \in {"'", "\""} ->
                        [s EXCEPT !.word = Append(@, char), !.quote = char]
                  [] char \in {" ", "\t"} ->
                        [s EXCEPT !.cl = IF s.word # <<>> THEN Append(@, s.word) ELSE @,
                                  !.word = <<>>]
                  [] OTHER ->
                        [s EXCEPT !.word = Append(@, char)]
           [] s.quote = "'" ->
                [s EXCEPT !.word = Append(@, char),
                          !.quote = IF char = "'" THEN NoQuote ELSE @]
           [] s.quote = "\"" ->
                [s EXCEPT !.word = Append(@, char),
                          !.quote = IF char = "\"" THEN NoQuote ELSE @]

\* One iteration of the loop of lines 89-126.  The word buffer is nil
\* exactly when it is empty: every append adds a rune and line 111 resets
\* it to nil, so "word != nil" is "word # <<>>".
scanChar(s, char) ==
    IF s.backslash
    THEN [s EXCEPT !.word = Append(@, char), !.backslash = FALSE]
    ELSE IF char = "\\"
    THEN [s EXCEPT !.word = Append(@, char), !.backslash = TRUE]
    ELSE CASE s.quote = NoQuote ->
                CASE char \in {"'", "\""} ->
                        [s EXCEPT !.word = Append(@, char), !.quote = char]
                  [] char \in {" ", "\t"} ->
                        [s EXCEPT !.cl = IF s.word # <<>> THEN Append(@, s.word) ELSE @,
                                  !.word = <<>>]
                  [] OTHER ->
                        [s EXCEPT !.word = Append(@, char)]
           [] s.quote = "'" ->
                [s EXCEPT !.word = Append(@, char),
                          !.quote = IF char = "'" THEN NoQuote ELSE @]
           [] s.quote = "\"" ->
                [s EXCEPT !.word = Append(@, char),
                          !.quote = IF char = "\"" THEN NoQuote ELSE @]

\* the scanner state after the first n characters of l
RECURSIVE scanTo(_, _)
scanTo(l, n) == IF n = 0 THEN scanInit ELSE scanChar(scanTo(l, n - 1), l[n])

\* line[:point] panics unless 0 <= point <= len(line) (line 89)
sliceInRange(l, p) == 0 <= p /\ p <= Len(l)

\* parseLineForCompletion(line, point), for a point the slice accepts
parseLineForCompletion(l, p) ==
    LET s == scanTo(l, p) IN Append(s.cl, s.word)

(***************************************************************************)
(* The tokenizer applied to every line and every cursor offset.            *)
(***************************************************************************)
LineChars == {"a", " ", "\t", "'", "\"", "\\"}

\* the variables of the other operations, which a call does not touch
flagsIdle ==
    /\ arg = <<>> /\ cl = <<>> /\ clNil = TRUE /\ inFlag = <<>>
    /\ completions = <<>> /\ rest = <<>> /\ restNil = TRUE
    /\ innerArgs = <<>> /\ result = <<>>

parseIdle == line = <<>> /\ point = 0 /\ words = <<>>

mainIdle ==
    /\ args = <<>> /\ compLine = <<>> /\ compPoint = <<>> /\ completer = "none"
    /\ completerArgs = <<>> /\ exitStatus = -1 /\ stdout = <<>>

\* the error value nil
NoErr == [fmt |-> "nil", arg |-> <<>>]

configIdle ==
    /\ input = <<>> /\ stream = <<>> /\ flags = <<>> /\ err = NoErr

ParseInit ==
    /\ pc = "call"
    /\ line \in SeqsUpTo(LineChars, MaxLen)
    /\ point \in 0..Len(line)
    /\ words = <<>>
    /\ flagsIdle
    /\ mainIdle
    /\ configIdle
    /\ panicked = FALSE

ParseLine ==
    /\ pc = "call"
    /\ sliceInRange(line, point)
    /\ words' = parseLineForCompletion(line, point)
    /\ pc' = "done"
    /\ UNCHANGED <<line, point, flagVars, mainVars, configVars, panicked>>

ParseSpec == ParseInit /\ [][ParseLine]_vars

(***************************************************************************)
(* Reference notions for the tokenizer claims, stated on the text before   *)
(* the cursor and not on the scanner's state.                              *)
(***************************************************************************)
WS == {" ", "\t"}

textBeforeCursor == Slice(line, 1, point)

Min(S) == CHOOSE x \in S : \A y \in S : x <= y

isPlain(t) == \A k \in 1..Len(t) : t[k] \notin {"'", "\"", "\\"}

\* first positions of the maximal runs of non-space, non-tab characters
runStarts(t) == {k \in 1..Len(t) : t[k] \notin WS /\ (k = 1 \/ t[k - 1] \in WS)}

runEnd(t, s) ==
    CHOOSE e \in s..Len(t) :
        /\ \A k \in s..e : t[k] \notin WS
        /\ e = Len(t) \/ t[e + 1] \in WS

RECURSIVE runsOf(_, _)
runsOf(t, S) ==
    IF S = {} THEN <<>>
    ELSE LET s == Min(S) IN <<Slice(t, s, runEnd(t, s))>> \o runsOf(t, S \ {s})

endsInSeparator(t) == t = <<>> \/ t[Len(t)] \in WS

\* C1: for every line and every cursor offset in 0..len(line) the result has
\* at least one element and every element but the last is non-empty; when the
\* text before the cursor holds no quote and no backslash the elements are
\* its maximal runs of non-space, non-tab characters, in order, followed by
\* one empty word exactly when that text is empty or ends in a space or tab.
C1_TokensArePlainRuns ==
    pc = "done" =>
        LET t == textBeforeCursor IN
        /\ Len(words) >= 1
        /\ \A k \in 1..(Len(words) - 1) : words[k] # <<>>
        /\ isPlain(t) =>
             words = runsOf(t, runStarts(t))
                       \o (IF endsInSeparator(t) THEN << <<>> >> ELSE <<>>)

\* C1 witness: a plain text with two adjacent separators and a trailing one
\* has been tokenized into a word and the empty final word.
C1_Witness ==
    /\ pc = "done"
    /\ textBeforeCursor = <<"a", " ", "\t">>
    /\ words = << <<"a">>, <<>> >>

\* position j is scanned directly after an unconsumed backslash: the run of
\* backslashes that ends just before j has odd length
escaped(t, j) ==
    LET k == Min({k \in 0..(j - 1) : \A m \in (k + 1)..(j - 1) : t[m] = "\\"})
    IN ((j - 1 - k) % 2) = 1

\* the quote open before position j: the unescaped quote characters before j
\* folded left to right, one opening a quote and the next equal one closing it
RECURSIVE quoteBefore(_, _)
quoteBefore(t, j) ==
    IF j = 1 THEN NoQuote
    ELSE LET q == quoteBefore(t, j - 1)
             c == t[j - 1]
         IN IF c \notin {"'", "\""} \/ escaped(t, j - 1) THEN q
            ELSE IF q = NoQuote THEN c
            ELSE IF q = c THEN NoQuote
            ELSE q

\* the separating whitespace: outside any quote, not after a backslash
separators(t) ==
    {j \in 1..Len(t) : t[j] \in WS /\ ~escaped(t, j) /\ quoteBefore(t, j) = NoQuote}

\* t cut at the positions of S: the non-empty pieces, in order
RECURSIVE piecesBefore(_, _, _)
piecesBefore(t, S, from) ==
    LET later == {j \in S : j >= from} IN
    IF later = {} THEN <<>>
    ELSE LET j == Min(later) IN
         (IF j > from THEN <<Slice(t, from, j - 1)>> ELSE <<>>)
            \o piecesBefore(t, S, j + 1)

lastPiece(t, S) ==
    LET from == IF S = {} THEN 1 ELSE (CHOOSE j \in S : \A k \in S : k <= j) + 1
    IN Slice(t, from, Len(t))

RECURSIVE flatten(_)
flatten(ws) == IF ws = <<>> THEN <<>> ELSE Head(ws) \o flatten(Tail(ws))

RECURSIVE without(_, _, _)
without(t, S, k) ==
    IF k > Len(t) THEN <<>>
    ELSE (IF k \in S THEN <<>> ELSE <<t[k]>>) \o without(t, S, k + 1)

\* C2: a space or tab ends the current word only when it is outside any
\* quote and not directly after an unconsumed backslash; every other
\* character is copied unchanged, and a quote character after a backslash
\* neither opens nor closes a quote.  So the words are the text before the
\* cursor cut at exactly those separators, and their concatenation is that
\* text with only the separators removed.
C2_OnlyBareWhitespaceSeparates ==
    pc = "done" =>
        LET t == textBeforeCursor
            S == separators(t)
        IN /\ words = piecesBefore(t, S, 1) \o <<lastPiece(t, S)>>
           /\ flatten(words) = without(t, S, 1)

\* C2 witness: a quote opened, an escaped quote inside it, then a space:
\* the quote is still open at the cursor and the whole text is one word.
C2_Witness ==
    /\ pc = "done"
    /\ textBeforeCursor = <<"'", "\\", "'", " ">>
    /\ words = << <<"'", "\\", "'", " ">> >>

(***************************************************************************)
(* completion.go: completeFlags, flagCompleter, setCompleter               *)
(***************************************************************************)
\* strings.HasPrefix
HasPrefix(str, prefix) ==
    Len(prefix) <= Len(str) /\ SubSeq(str, 1, Len(prefix)) = prefix

\* strings.Contains(w, c) for a one-character c
Contains(w, c) == \E k \in 1..Len(w) : w[k] = c

\* the i the loop of lines 148-149 stops at: the number of leading dashes
leadingDashes(w) ==
    Min({i \in 0..Len(w) : i = Len(w) \/ w[i + 1] # "-"})

\* w[i:] of line 150, and strings.TrimLeft(w, "-") of line 171
TrimLeftDashes(w) == Slice(w, leadingDashes(w) + 1, Len(w))

\* The flag set of the test suite (SetUpSuite), in the order VisitAll
\* visits it: sorted by name.
bool == <<"b", "o", "o", "l">>
int  == <<"i", "n", "t">>
str  == <<"s", "t", "r">>
str1 == <<"s", "t", "r", "1">>

flagNames == <<bool, int, str, str1>>

\* flags.Lookup(name) != nil
Lookup(name) == \E k \in 1..Len(flagNames) : flagNames[k] = name

\* flag.Value.(boolFlag) holds and IsBoolFlag() is true: only Bool flags
IsBoolFlag(name) == name = bool

\* the condition of line 145
isFlagWord(w) == Len(w) > 1 /\ w[1] = "-" /\ w # <<"-", "-">>

\* A mutation of pendingAfterFlag: a flag that Lookup does not find is
\* treated like a boolean flag and takes no value.
pendingAfterFlagKnownOnly(w) ==
    LET name == IF ~Contains(w, "=") THEN TrimLeftDashes(w) ELSE <<>>
    IN IF ~Lookup(name) \/ IsBoolFlag(name) THEN <<>> ELSE name

\* lines 146-156: inFlag after a flag word (inFlag is "" on entry)
pendingAfterFlag(w) ==
    LET name == IF ~Contains(w, "=") THEN TrimLeftDashes(w) ELSE <<>>
    IN IF Lookup(name) /\ IsBoolFlag(name) THEN <<>> ELSE name

\* A mutation of restAtStop: the "--" that ends the flags is handed on.
restAtStopKeepDashes(c) == c

\* lines 158-161: the rest returned when a non-flag word stops the scan
restAtStop(c) == IF c[1] = <<"-", "-">> THEN Tail(c) ELSE c

\* lines 172-176: "-" + f.Name for the flags, in VisitAll's order, whose
\* name has the prefix
visitAllWithPrefix(names, prefix) ==
    LET kept == SelectSeq(names, LAMBDA f : HasPrefix(f, prefix))
    IN [k \in 1..Len(kept) |-> <<"-">> \o kept[k]]

\* lines 181-183: "-" + f.Name for every flag, in VisitAll's order
visitAllNames(names) == [k \in 1..Len(names) |-> <<"-">> \o names[k]]

\* A mutation of completeFinal: the pending-value case of line 166 is not
\* tested first, so a flag's value is completed like any other word.
completeFinalNoPending(w, pending) ==
    IF Len(w) > 0 /\ w[1] = "-"
    THEN [completions |->
              visitAllWithPrefix(flagNames, TrimLeftDashes(w)),
          rest |-> <<>>, restNil |-> TRUE]
    ELSE [completions |->
              IF w = <<>> THEN visitAllNames(flagNames) ELSE <<>>,
          rest |-> <<w>>, restNil |-> FALSE]

\* lines 166-185: what completeFlags returns once only the final word w is
\* left, pending being inFlag
completeFinal(w, pending) ==
    IF pending # <<>>
    THEN [completions |-> <<>>, rest |-> <<>>, restNil |-> TRUE]
    ELSE IF Len(w) > 0 /\ w[1] = "-"
    THEN [completions |->
              visitAllWithPrefix(flagNames, TrimLeftDashes(w)),
          rest |-> <<>>, restNil |-> TRUE]
    ELSE [completions |->
              IF w = <<>> THEN visitAllNames(flagNames) ELSE <<>>,
          rest |-> <<w>>, restNil |-> FALSE]

\* lines 141-185 from a given loop state
RECURSIVE scanFlags(_, _)
scanFlags(c, pending) ==
    IF Len(c) > 1
    THEN IF pending # <<>> THEN scanFlags(Tail(c), <<>>)
         ELSE IF isFlagWord(c[1]) THEN scanFlags(Tail(c), pendingAfterFlag(c[1]))
         ELSE [completions |-> <<>>, rest |-> restAtStop(c), restNil |-> FALSE]
    ELSE completeFinal(c[1], pending)

\* completeFlags(cl, flags); isNil tells whether cl is the nil slice
completeFlags(c, isNil) ==
    IF Len(c) = 0
    THEN [completions |-> <<>>, rest |-> c, restNil |-> isNil]
    ELSE scanFlags(c, <<>>)

\* The inner Completer: SetCompleter over a fixed set of words.
cmd == <<"c", "m", "d">>
innerStrs == <<cmd, <<"c", "o">>, <<"x">>>>

\* CommandLine.CurrentWord: c[len(c)-1] panics on an empty command line
currentWordPanics(c) == Len(c) = 0

\* setCompleter.Complete, for a command line CurrentWord accepts
setComplete(strs, c) ==
    SelectSeq(strs, LAMBDA x : HasPrefix(x, c[Len(c)]))

\* flagCompleter.Complete, lines 208-215, given what completeFlags returned
delegate(r) ==
    IF r.restNil
    THEN [panic |-> FALSE, out |-> r.completions, calls |-> <<>>]
    ELSE IF currentWordPanics(r.rest)
    THEN [panic |-> TRUE, out |-> <<>>, calls |-> <<r.rest>>]
    ELSE [panic |-> FALSE, out |-> r.completions \o setComplete(innerStrs, r.rest),
          calls |-> <<r.rest>>]

\* flagCompleter.Complete(cl)
flagComplete(c, isNil) == delegate(completeFlags(c, isNil))

(***************************************************************************)
(* flagCompleter.Complete called on every command line over FlagWords, the *)
(* loop of completeFlags taken one iteration at a time.                    *)
(***************************************************************************)
FlagWords ==
    { <<>>, <<"-">>, <<"-", "-">>, <<"-", "-", "-">>,
      <<"-">> \o bool, <<"-">> \o int, <<"-", "-">> \o str,
      <<"-">> \o int \o <<"=", "7">>,
      <<"-", "w", "t", "f">>, <<"-", "s">>, cmd }

FlagsInit ==
    /\ pc = "scan"
    /\ arg \in SeqsUpTo(FlagWords, MaxWords)
    /\ cl = arg
    /\ clNil \in (IF arg = <<>> THEN BOOLEAN ELSE {FALSE})
    /\ inFlag = <<>>
    /\ completions = <<>> /\ rest = <<>> /\ restNil = TRUE
    /\ innerArgs = <<>> /\ result = <<>>
    /\ parseIdle
    /\ mainIdle
    /\ configIdle
    /\ panicked = FALSE

\* completeFlags returns r and Complete finishes with it
returnFlags(r) ==
    LET d == delegate(r) IN
    /\ completions' = r.completions
    /\ rest' = r.rest
    /\ restNil' = r.restNil
    /\ innerArgs' = d.calls
    /\ result' = d.out
    /\ panicked' = d.panic
    /\ pc' = "done"
    /\ UNCHANGED <<arg, cl, clNil, inFlag, parseVars, mainVars, configVars>>

\* lines 137-139
ReturnEmpty ==
    /\ pc = "scan"
    /\ Len(cl) = 0
    /\ returnFlags(completeFlags(cl, clNil))

\* lines 143-144: the word is the pending flag's value
ScanFlagValue ==
    /\ pc = "scan"
    /\ Len(cl) > 1
    /\ inFlag # <<>>
    /\ inFlag' = <<>>
    /\ cl' = Tail(cl)
    /\ UNCHANGED <<pc, arg, clNil, completions, rest, restNil, innerArgs, result,
                   parseVars, mainVars, configVars, panicked>>

\* lines 145-156: the word is a flag
ScanFlagWord ==
    /\ pc = "scan"
    /\ Len(cl) > 1
    /\ inFlag = <<>>
    /\ isFlagWord(cl[1])
    /\ inFlag' = pendingAfterFlag(cl[1])
    /\ cl' = Tail(cl)
    /\ UNCHANGED <<pc, arg, clNil, completions, rest, restNil, innerArgs, result,
                   parseVars, mainVars, configVars, panicked>>

\* lines 157-162: a non-flag word ends the scan
ScanStop ==
    /\ pc = "scan"
    /\ Len(cl) > 1
    /\ inFlag = <<>>
    /\ ~isFlagWord(cl[1])
    /\ returnFlags(scanFlags(cl, inFlag))

\* lines 166-185: only the final word is left
CompleteFinal ==
    /\ pc = "scan"
    /\ Len(cl) = 1
    /\ returnFlags(scanFlags(cl, inFlag))

FlagsNext ==
    \/ ReturnEmpty
    \/ ScanFlagValue
    \/ ScanFlagWord
    \/ ScanStop
    \/ CompleteFinal

FlagsSpec == FlagsInit /\ [][FlagsNext]_vars

(***************************************************************************)
(* Reference notions for the flag-completion claims.                       *)
(***************************************************************************)
dashes2 == <<"-", "-">>

RECURSIVE stripDashes(_)
stripDashes(w) ==
    IF w # <<>> /\ Head(w) = "-" THEN stripDashes(Tail(w)) ELSE w

startsWith(w, p) == \E n \in 0..Len(w) : SubSeq(w, 1, n) = p

boolFlags  == {bool}
valueFlags == {int, str, str1}

allFlags == <<(<<"-">> \o bool), (<<"-">> \o int), (<<"-">> \o str), (<<"-">> \o str1)>>

RECURSIVE flagsWithPrefix(_, _)
flagsWithPrefix(fs, p) ==
    IF fs = <<>> THEN <<>>
    ELSE (IF startsWith(stripDashes(Head(fs)), p) THEN <<Head(fs)>> ELSE <<>>)
            \o flagsWithPrefix(Tail(fs), p)

\* the scan has reached the final word: every earlier word was consumed as
\* a flag or a flag's value
atFinalWord == pc = "scan" /\ Len(cl) = 1

\* the scan is at a word before the final one that is not a pending flag's
\* value
atScannedWord == pc = "scan" /\ Len(cl) > 1 /\ inFlag = <<>>

\* C5: once all earlier words are consumed as flags and flag values the
\* completer routes on the final word: for the value of a pending flag the
\* result is empty and the inner strategy is not invoked; for a word that
\* starts with '-' the result is the registered flag names, each prefixed
\* with one '-', that have the word's dash-stripped text as a prefix, and
\* the inner strategy is not invoked; for the empty word the result is all
\* flag names followed by the inner strategy's results on the remaining
\* command line.
C5_FinalWordRouting ==
    [][ atFinalWord =>
          LET w == cl[1] IN
          /\ w = arg[Len(arg)]
          /\ pc' = "done"
          /\ inFlag # <<>> => result' = <<>> /\ innerArgs' = <<>>
          /\ (inFlag = <<>> /\ w # <<>> /\ w[1] = "-") =>
                /\ result' = flagsWithPrefix(allFlags, stripDashes(w))
                /\ innerArgs' = <<>>
          /\ (inFlag = <<>> /\ w = <<>>) =>
                /\ result' = allFlags \o setComplete(innerStrs, <<w>>)
                /\ innerArgs' = << <<w>> >>
      ]_vars

\* C5 witness: after a value-taking flag and its value the empty final word
\* got all flag names followed by the inner strategy's completions.
C5_Witness ==
    /\ pc = "done"
    /\ arg = << <<"-">> \o int, cmd, <<>> >>
    /\ result = allFlags \o innerStrs
    /\ innerArgs = << << <<>> >> >>

\* C6 as stated: every non-final word that begins with '-' and is not
\* exactly '--' (and is not a pending flag's value) is a flag word: the scan
\* continues past it, and the next word is its value exactly when it holds
\* no '=' and its dash-stripped name is a registered flag that takes a
\* value; an unregistered or boolean flag consumes no following word.
C6_AsStated ==
    [][ (atScannedWord /\ cl[1] # <<>> /\ cl[1][1] = "-" /\ cl[1] # dashes2) =>
          /\ pc' = "scan"
          /\ cl' = Tail(cl)
          /\ (inFlag' # <<>>) <=>
                (~Contains(cl[1], "=") /\ stripDashes(cl[1]) \in valueFlags)
      ]_vars

\* C6 amended: every non-final word of more than one character that begins
\* with '-' and is not exactly '--' (and is not a pending flag's value) is a
\* flag word: the scan continues past it, and the next word is its value
\* exactly when it holds no '=' and its dash-stripped name is non-empty and
\* is not a registered boolean flag; so a flag the flag set does not know
\* consumes the following word like a value-taking flag, and a boolean flag
\* consumes none.
C6_UnknownFlagTakesValue ==
    [][ (atScannedWord /\ Len(cl[1]) > 1 /\ cl[1][1] = "-" /\ cl[1] # dashes2) =>
          /\ pc' = "scan"
          /\ cl' = Tail(cl)
          /\ (inFlag' # <<>>) <=>
                /\ ~Contains(cl[1], "=")
                /\ stripDashes(cl[1]) # <<>>
                /\ stripDashes(cl[1]) \notin boolFlags
          /\ inFlag' # <<>> => inFlag' = stripDashes(cl[1])
      ]_vars

\* C6 witness: the unregistered flag -wtf consumed the next word, so the
\* empty final word was completed as a flag position.
C6_Witness ==
    /\ pc = "done"
    /\ arg = << <<"-", "w", "t", "f">>, cmd, <<>> >>
    /\ completions = allFlags
    /\ rest = << <<>> >>

C10_CommandNameIsSkipped ==
    pc = "done" =>
        /\ arg = <<cmd, <<"-">>>> => completions = allFlags /\ restNil
        /\ arg = <<cmd, <<"-">> \o bool, <<>>>> =>
              completions = allFlags /\ ~restNil /\ rest = << <<>> >>
        /\ (Len(arg) >= 2 /\ arg[1] = cmd) => ~(~restNil /\ rest = arg)

(***************************************************************************)
(* completion.go: CompleteIfRequested                                      *)
(***************************************************************************)
Digits == {"0", "1", "2", "3", "4", "5", "6", "7", "8", "9"}

digitValue(c) ==
    CASE c = "0" -> 0 [] c = "1" -> 1 [] c = "2" -> 2 [] c = "3" -> 3 [] c = "4" -> 4
      [] c = "5" -> 5 [] c = "6" -> 6 [] c = "7" -> 7 [] c = "8" -> 8 [] c = "9" -> 9

RECURSIVE decimal(_)
decimal(ds) ==
    IF ds = <<>> THEN 0
    ELSE 10 * decimal(SubSeq(ds, 1, Len(ds) - 1)) + digitValue(ds[Len(ds)])

\* strconv.ParseInt(s, 10, bitSize): an optional sign, then one or more
\* decimal digits.  The strings of the model have at most two digits, so
\* the range error of bitSize does not arise.
ParseInt(s) ==
    LET signed == s # <<>> /\ s[1] \in {"+", "-"}
        ds == IF signed THEN Tail(s) ELSE s
        ok == ds # <<>> /\ \A k \in 1..Len(ds) : ds[k] \in Digits
    IN IF ~ok THEN [err |-> TRUE, value |-> 0]
       ELSE [err |-> FALSE,
             value |-> IF s[1] = "-" THEN 0 - decimal(ds) ELSE decimal(ds)]

\* the condition of line 60 negated: completion mode was requested
requested == Len(args) > 1 /\ args[2] = "-do-completion"

\* completer.Complete(cl) for the two Completers of the package
complete(c, cmdline) ==
    IF c = "set"
    THEN IF currentWordPanics(cmdline)
         THEN [panic |-> TRUE, out |-> <<>>, calls |-> <<>>]
         ELSE [panic |-> FALSE, out |-> setComplete(innerStrs, cmdline), calls |-> <<>>]
    ELSE flagComplete(cmdline, FALSE)

pw == <<"p", "w">>
sp == <<" ">>

MainArgs ==
    { <<"pw">>, <<"pw", "-do-completion">>, <<"pw", "-h">>,
      <<"pw", "-do-completion", "x">> }

MainLines ==
    { <<>>, pw, pw \o sp, sp \o pw, pw \o sp \o <<"-">>, pw \o sp \o <<"c">>,
      pw \o sp \o cmd, pw \o sp \o <<"-">> \o int \o sp,
      pw \o sp \o <<"-">> \o bool \o sp }

MainPoints ==
    { <<>>, <<"0">>, <<"2">>, <<"3">>, <<"4">>, <<"6">>, <<"9">>, <<"1", "2">>,
      <<"-", "1">>, <<"+", "3">>, <<"x">>, <<"3", "x">> }

MainInit ==
    /\ pc = "main"
    /\ args \in MainArgs
    /\ compLine \in MainLines
    /\ compPoint \in MainPoints
    /\ completer \in {"set", "flags"}
    /\ completerArgs = <<>>
    /\ exitStatus = -1
    /\ stdout = <<>>
    /\ parseIdle
    /\ flagsIdle
    /\ configIdle
    /\ panicked = FALSE

\* lines 60-62
NotRequested ==
    /\ pc = "main"
    /\ ~requested
    /\ pc' = "returned"
    /\ UNCHANGED <<parseVars, flagVars, mainVars, configVars, panicked>>

\* lines 63-68
EnvUnset ==
    /\ pc = "main"
    /\ requested
    /\ compLine = <<>> \/ compPoint = <<>>
    /\ exitStatus' = 1
    /\ pc' = "exited"
    /\ UNCHANGED <<parseVars, flagVars, configVars, panicked,
                   args, compLine, compPoint, completer, completerArgs, stdout>>

\* lines 70-74
InvalidPoint ==
    /\ pc = "main"
    /\ requested
    /\ compLine # <<>> /\ compPoint # <<>>
    /\ ParseInt(compPoint).err
    /\ exitStatus' = 1
    /\ pc' = "exited"
    /\ UNCHANGED <<parseVars, flagVars, configVars, panicked,
                   args, compLine, compPoint, completer, completerArgs, stdout>>

\* line 76 reached: the environment is set and the offset parsed
tokenizing ==
    /\ pc = "main"
    /\ requested
    /\ compLine # <<>> /\ compPoint # <<>>
    /\ ~ParseInt(compPoint).err

\* lines 76, 89: line[:point] with point outside 0..len(line) is a runtime
\* panic (slice bounds out of range)
SlicePanic ==
    /\ tokenizing
    /\ ~sliceInRange(compLine, ParseInt(compPoint).value)
    /\ panicked' = TRUE
    /\ pc' = "panicked"
    /\ UNCHANGED <<parseVars, flagVars, mainVars, configVars>>

\* parseLineForCompletion(line, int(point))[1:]
commandLine == Tail(parseLineForCompletion(compLine, ParseInt(compPoint).value))

\* lines 76-78: the Completer panics (CurrentWord of an empty command line)
CompleterPanic ==
    /\ tokenizing
    /\ sliceInRange(compLine, ParseInt(compPoint).value)
    /\ complete(completer, commandLine).panic
    /\ completerArgs' = <<commandLine>>
    /\ innerArgs' = complete(completer, commandLine).calls
    /\ panicked' = TRUE
    /\ pc' = "panicked"
    /\ UNCHANGED <<parseVars, configVars, args, compLine, compPoint, completer,
                   exitStatus, stdout,
                   arg, cl, clNil, inFlag, completions, rest, restNil, result>>

\* lines 76-81
Completed ==
    /\ tokenizing
    /\ sliceInRange(compLine, ParseInt(compPoint).value)
    /\ ~complete(completer, commandLine).panic
    /\ completerArgs' = <<commandLine>>
    /\ innerArgs' = complete(completer, commandLine).calls
    /\ stdout' = complete(completer, commandLine).out
    /\ exitStatus' = 0
    /\ pc' = "exited"
    /\ UNCHANGED <<parseVars, configVars, args, compLine, compPoint, completer,
                   panicked,
                   arg, cl, clNil, inFlag, completions, rest, restNil, result>>

MainNext ==
    \/ NotRequested
    \/ EnvUnset
    \/ InvalidPoint
    \/ SlicePanic
    \/ CompleterPanic
    \/ Completed

MainSpec == MainInit /\ [][MainNext]_vars

\* a string that reads as an integer: an optional sign and decimal digits
isInteger(s) ==
    \E k \in 0..1 :
        /\ Len(s) > k
        /\ k = 1 => s[1] \in {"+", "-"}
        /\ \A m \in (k + 1)..Len(s) : s[m] \in Digits

\* C3: in completion mode CompleteIfRequested always ends by an explicit
\* exit, never by returning or by aborting otherwise; the status is non-zero
\* when COMP_LINE or COMP_POINT is missing or COMP_POINT is no integer, and
\* in every other case the candidates are printed and the status is 0.
C3_AlwaysExplicitExit ==
    (pc # "main" /\ requested) =>
        /\ pc = "exited"
        /\ ~panicked
        /\ (exitStatus # 0) <=>
               (compLine = <<>> \/ compPoint = <<>> \/ ~isInteger(compPoint))
        /\ exitStatus = 0 => stdout = complete(completer, commandLine).out

\* C4: every command line that reaches a completion strategy has at least
\* one element: the one CompleteIfRequested passes to the supplied strategy
\* and the one the flag-aware wrapper passes to its inner strategy.
C4_CommandLinesNonEmpty ==
    /\ \A k \in 1..Len(completerArgs) : Len(completerArgs[k]) >= 1
    /\ \A k \in 1..Len(innerArgs) : Len(innerArgs[k]) >= 1

(***************************************************************************)
(* config.go: ParseConfig                                                  *)
(***************************************************************************)
Max(S) == CHOOSE x \in S : \A y \in S : y <= x

\* strings.TrimSpace, for the white space a scanned line can hold here
TrimSpace(t) ==
    LET first == Min({k \in 1..(Len(t) + 1) : k = Len(t) + 1 \/ t[k] \notin {" ", "\t"}})
        last  == Max({k \in 0..Len(t) : k = 0 \/ t[k] \notin {" ", "\t"}})
    IN IF first > last THEN <<>> ELSE Slice(t, first, last)

\* strings.SplitN(t, "=", 2)
SplitN2(t) ==
    IF ~Contains(t, "=") THEN <<t>>
    ELSE LET i == Min({k \in 1..Len(t) : t[k] = "="})
         IN <<Slice(t, 1, i - 1), Slice(t, i + 1, Len(t))>>

\* The flag set of the config test suite (SetUpTest): "int", an Int flag
\* with default 0, and "string", a String flag with default "STRING".
string == <<"s", "t", "r", "i", "n", "g">>

configDefaults == [int |-> 0, string |-> <<"S", "T", "R", "I", "N", "G">>]

\* flags.Lookup(key) != nil for that flag set
configLookup(key) == key \in {int, string}

\* flags.Set(key, value) for a key Lookup finds.  A String flag stores the
\* value.  An Int flag parses it (the values of the model are digit strings
\* without a leading 0, or no number at all) and stores what the parse
\* returned, which is 0 when the parse failed, before it returns the error.
flagSet(fs, key, value) ==
    IF key = string
    THEN [flags |-> [fs EXCEPT !.string = value], err |-> NoErr]
    ELSE LET r == ParseInt(value) IN
         [flags |-> [fs EXCEPT !.int = r.value],
          err |-> IF r.err THEN [fmt |-> "parse error", arg |-> value] ELSE NoErr]

\* A mutation of configLine: a line that fails does not end the loop; its
\* error is dropped and the scan goes on.
configLineKeepGoing(fs, text) ==
    LET l == TrimSpace(text) IN
    IF l = <<>> \/ HasPrefix(l, <<"#">>)
    THEN [return |-> FALSE, flags |-> fs, err |-> NoErr]
    ELSE LET bits == SplitN2(l) IN
         IF Len(bits) # 2
         THEN [return |-> FALSE, flags |-> fs, err |-> NoErr]
         ELSE LET key == TrimSpace(bits[1])
                  value == TrimSpace(bits[2])
              IN IF ~configLookup(key)
                 THEN [return |-> FALSE, flags |-> fs, err |-> NoErr]
                 ELSE [return |-> FALSE, flags |-> flagSet(fs, key, value).flags,
                       err |-> NoErr]

\* lines 28-47: one iteration of the loop, on the text the scanner returned.
\* An error of fmt.Errorf(format, a) is the record of format and a.
configLine(fs, text) ==
    LET l == TrimSpace(text) IN
    IF l = <<>> \/ HasPrefix(l, <<"#">>)
    THEN [return |-> FALSE, flags |-> fs, err |-> NoErr]
    ELSE LET bits == SplitN2(l) IN
         IF Len(bits) # 2
         THEN [return |-> TRUE, flags |-> fs,
               err |-> [fmt |-> "Illegal config line: `%s'", arg |-> l]]
         ELSE LET key == TrimSpace(bits[1])
                  value == TrimSpace(bits[2])
              IN IF ~configLookup(key)
                 THEN [return |-> TRUE, flags |-> fs,
                       err |-> [fmt |-> "Unknown option `%s'", arg |-> bits[1]]]
                 ELSE LET r == flagSet(fs, key, value) IN
                      [return |-> r.err # NoErr, flags |-> r.flags, err |-> r.err]

(***************************************************************************)
(* ParseConfig called on every stream over ConfigLines, one scanned line   *)
(* at a time.                                                              *)
(***************************************************************************)
ConfigLines ==
    { <<>>,
      <<" ", "\t">>,
      <<" ", "#", "i", "n", "t", "=", "7">>,
      <<"i", "n", "t", "=", "1">>,
      <<"\t", "i", "n", "t", " ", "=", " ", "1", "7", " ">>,
      <<"i", "n", "t", " ", "=", " ", "x">>,
      <<"s", "t", "r", "i", "n", "g", " ", "=", " ", "a", " ", "b">>,
      <<"s", "t", "r", "i", "n", "g", "=", "#">>,
      <<"n", "o", "t", "a", " ", "=", " ", "7">>,
      <<"f", "o", "o", " ">> }

ConfigInit ==
    /\ pc = "scan"
    /\ input \in SeqsUpTo(ConfigLines, MaxLines)
    /\ stream = input
    /\ flags = configDefaults
    /\ err = NoErr
    /\ parseIdle
    /\ flagsIdle
    /\ mainIdle
    /\ panicked = FALSE

\* lines 27-47: scanner.Scan() returned a line and the loop goes on
ScanContinue ==
    /\ pc = "scan"
    /\ stream # <<>>
    /\ ~configLine(flags, Head(stream)).return
    /\ flags' = configLine(flags, Head(stream)).flags
    /\ stream' = Tail(stream)
    /\ UNCHANGED <<pc, input, err, parseVars, flagVars, mainVars, panicked>>

\* lines 27-47: scanner.Scan() returned a line and the loop returns on it
ScanReturn ==
    /\ pc = "scan"
    /\ stream # <<>>
    /\ configLine(flags, Head(stream)).return
    /\ flags' = configLine(flags, Head(stream)).flags
    /\ err' = configLine(flags, Head(stream)).err
    /\ stream' = Tail(stream)
    /\ pc' = "returned"
    /\ UNCHANGED <<input, parseVars, flagVars, mainVars, panicked>>

\* lines 27, 49: scanner.Scan() returned false
ScanEnd ==
    /\ pc = "scan"
    /\ stream = <<>>
    /\ err' = NoErr
    /\ pc' = "returned"
    /\ UNCHANGED <<input, stream, flags, parseVars, flagVars, mainVars, panicked>>

ConfigNext ==
    \/ ScanContinue
    \/ ScanReturn
    \/ ScanEnd

ConfigSpec == ConfigInit /\ [][ConfigNext]_vars

(***************************************************************************)
(* Reference notions for the config claims, stated on the input lines.     *)
(***************************************************************************)
\* the line is neither blank nor a comment
isDirective(l) ==
    \E k \in 1..Len(l) :
        /\ l[k] \notin {" ", "\t", "#"}
        /\ \A m \in 1..(k - 1) : l[m] \in {" ", "\t"}

equalsAt(l) == IF Contains(l, "=") THEN Min({k \in 1..Len(l) : l[k] = "="}) ELSE 0

keyOf(l)   == TrimSpace(SubSeq(l, 1, equalsAt(l) - 1))
valueOf(l) == TrimSpace(SubSeq(l, equalsAt(l) + 1, Len(l)))

isNumber(v) == v # <<>> /\ \A k \in 1..Len(v) : v[k] \in Digits

\* why a directive fails, or "ok"
failure(l) ==
    IF equalsAt(l) = 0 THEN "no equals"
    ELSE IF keyOf(l) \notin {int, string} THEN "unknown key"
    ELSE IF keyOf(l) = int /\ ~isNumber(valueOf(l)) THEN "rejected"
    ELSE "ok"

failing(l) == isDirective(l) /\ failure(l) # "ok"

\* the index of the first failing line, or one past the last line
firstFailure == Min({k \in 1..(Len(input) + 1) : k = Len(input) + 1 \/ failing(input[k])})

\* the last line before index n that sets flag f, or 0
lastSetting(f, n) ==
    Max({0} \cup {k \in 1..(n - 1) : isDirective(input[k]) /\ keyOf(input[k]) = f})

\* the flag values the lines before index n give, in stream order
valuesBefore(n) ==
    [int |-> IF lastSetting(int, n) = 0 THEN configDefaults.int
             ELSE decimal(valueOf(input[lastSetting(int, n)])),
     string |-> IF lastSetting(string, n) = 0 THEN configDefaults.string
                ELSE valueOf(input[lastSetting(string, n)])]

\* the error is the one of a line that fails the given way
errorOf(kind) ==
    CASE kind = "no equals"   -> err.fmt = "Illegal config line: `%s'"
      [] kind = "unknown key" -> err.fmt = "Unknown option `%s'"
      [] kind = "rejected"    -> err.fmt = "parse error"

\* C8 as stated: the directives are applied in stream order up to the first
\* failing line, whose error is returned; every flag set by an earlier line
\* keeps the value that line gave it and no later line is applied; without a
\* failing line the call succeeds with every directive applied.
C8_AsStated ==
    pc = "returned" =>
        LET n == firstFailure IN
        /\ flags = valuesBefore(n)
        /\ IF n > Len(input) THEN err = NoErr
           ELSE err # NoErr /\ errorOf(failure(input[n]))

\* C8 amended: as stated, except that the flag named by a failing line whose
\* value the setter rejected holds what the rejecting setter stored (0 for an
\* Int flag) and not the value an earlier line gave it; every other flag
\* keeps the value the earlier lines gave it.
C8_FirstFailureStops ==
    pc = "returned" =>
        LET n == firstFailure
            rejected == n <= Len(input) /\ failure(input[n]) = "rejected"
        IN /\ flags.string = valuesBefore(n).string
           /\ flags.int = IF rejected THEN 0 ELSE valuesBefore(n).int
           /\ IF n > Len(input) THEN err = NoErr
              ELSE err # NoErr /\ errorOf(failure(input[n]))

\* C8 witness: line 1 set int to 1, line 2 was rejected by the Int setter,
\* line 3 was not applied; int holds the 0 the rejecting setter stored.
C8_Witness ==
    /\ pc = "returned"
    /\ input = << <<"i", "n", "t", "=", "1">>,
                  <<"i", "n", "t", " ", "=", " ", "x">>,
                  <<"s", "t", "r", "i", "n", "g", "=", "#">> >>
    /\ flags = [int |-> 0, string |-> configDefaults.string]
    /\ err.fmt = "parse error"

\* C9: for a line whose trimmed key is not a registered flag the error
\* message is exactly "unknown option `K'" with K the trimmed key, and the
\* line changes no flag.
C9_UnknownOptionMessage ==
    (pc = "returned" /\ firstFailure <= Len(input)
                     /\ failure(input[firstFailure]) = "unknown key") =>
        /\ err.fmt = "unknown option `%s'"
        /\ err.arg = keyOf(input[firstFailure])
        /\ flags = valuesBefore(firstFailure)

====
